---- MODULE Spec2Model ----
(***************************************************************************)
(* A model of pyraptor's range query (run_range_mcraptor) over the         *)
(* multi-criteria round-based search (McRAPTOR), and of the timetable the  *)
(* GTFS conversion builds.  Times are in units of TRANSFER_COST.           *)
(***************************************************************************)
EXTENDS Integers, Sequences, FiniteSets, TLC

VARIABLES
    timetable,                \* [trips, names]: the immutable timetable
    origin_station,           \* the origin station id passed to the query
    max_rounds,               \* the round budget K_max
    t_lo, t_hi,               \* the --starttime / --endtime of the query
    pc,                       \* position in run_range_mcraptor
    from_stops,               \* stops of the origin station
    destination_stops,        \* station name -> stops
    potential_dep_secs,       \* candidate departure times, as iterated
    dep_index,                \* index of the current iteration (0-based)
    seed_bag,                 \* the seed handed to the current search
    bag_round_stop,           \* round -> stop -> bag, of the current search
    k,                        \* the search's current round
    marked_stops,             \* stops marked in the last round
    actual_rounds,            \* the round count the search returned
    last_round_bag,           \* the bag kept for the next iteration
    journeys_to_destinations, \* station name -> list of journeys
    searched,                 \* history: departure times searched, in order
    reconstructed,            \* history: station name -> every journey reconstructed, in order
    second_call,              \* TRUE in the second call of the query
    first_result,             \* the map the first call returned
    gpc,                      \* position in the GTFS conversion
    departure_date,           \* the service date, yyyymmdd as an integer
    gtfs_feed,                \* [calendar, stops]: the rows of the feed files
    gtfs_timetable,           \* [trips, stops]: what read_gtfs_timetable returns
    stations,                 \* ids of the Stations built
    station_stops,            \* Station.stops: station id -> stop ids
    stop_station,             \* Stop.station of every Stop constructed
    all_stops,                \* ids of the Stops added to the Stops collection
    trip_stop_times,          \* the TripStopTimes built: [trip, stopidx, stop]
    transfers                 \* the Transfers built

vars == <<timetable, origin_station, max_rounds, t_lo, t_hi, pc, from_stops,
          destination_stops, potential_dep_secs, dep_index, seed_bag,
          bag_round_stop, k, marked_stops, actual_rounds, last_round_bag,
          journeys_to_destinations, searched, reconstructed, second_call,
          first_result, gpc, departure_date, gtfs_feed, gtfs_timetable,
          stations, station_stops, stop_station, all_stops, trip_stop_times,
          transfers>>

-----------------------------------------------------------------------------
(* Bounds of the model *)

\* a timetable holds at most MaxTrips trips of the pool
MaxTrips == 3
\* the round budget ranges over 1..MaxRounds
MaxRounds == 2

-----------------------------------------------------------------------------
(* The timetable: stations, stops, transfers, trips, routes *)

TRANSFER_COST == 1

StationIds == {"A", "B", "C"}

Stops == {"A1", "A2", "B1", "C1"}

\* Stop.station: the parent station of each stop
StationOf == [s \in Stops |-> CASE s \in {"A1", "A2"} -> "A"
                                [] s = "B1" -> "B"
                                [] OTHER -> "C"]

\* Station.stops / Stations.get_stops
get_stops(station_id) == {s \in Stops : StationOf[s] = station_id}

\* the transfers out of a stop: every other stop of the same station
TransfersFrom(q) == {q2 \in get_stops(StationOf[q]) : q2 # q}

ST(stop, arr, dep, fare) == [stop |-> stop, arr |-> arr, dep |-> dep, fare |-> fare]

\* the trips a timetable is drawn from: each a sequence of TripStopTimes
TripPool == 1..7

TripDef(t) ==
    CASE t = 1 -> <<ST("A1", 0, 0, 0), ST("B1", 3, 3, 0), ST("C1", 7, 7, 0)>>
      [] t = 2 -> <<ST("A1", 1, 1, 0), ST("B1", 5, 5, 0), ST("C1", 9, 9, 0)>>
      [] t = 3 -> <<ST("A2", 2, 2, 0), ST("B1", 3, 3, 0)>>
      [] t = 4 -> <<ST("B1", 4, 4, 0), ST("C1", 5, 5, 0)>>
      [] t = 5 -> <<ST("C1", 0, 0, 0), ST("A1", 2, 2, 0)>>
      [] t = 6 -> <<ST("A2", 4, 4, 0), ST("B1", 6, 6, 1)>>
      [] OTHER -> <<ST("A1", 1, 1, 1), ST("C1", 6, 6, 0)>>

\* the stop pattern of a trip; trips with the same pattern form a route
Pattern(t) == [i \in 1..Len(TripDef(t)) |-> TripDef(t)[i].stop]

Routes == {Pattern(t) : t \in timetable.trips}

RouteTrips(r) == {t \in timetable.trips : Pattern(t) = r}

\* route.stop_index(stop)
StopIndex(r, s) == CHOOSE i \in 1..Len(r) : r[i] = s

\* order of the trips within a route: by departure at the first stop
TripBefore(t1, t2) ==
    \/ TripDef(t1)[1].dep < TripDef(t2)[1].dep
    \/ TripDef(t1)[1].dep = TripDef(t2)[1].dep /\ t1 < t2

\* the first trip of route r that departs stop index i at or after time;
\* 0 when there is none
EarliestTrip(r, i, time) ==
    LET ok == {t \in RouteTrips(r) : TripDef(t)[i].dep >= time}
    IN IF ok = {} THEN 0
       ELSE CHOOSE t \in ok : \A u \in ok \ {t} : TripBefore(t, u)

\* invariant 3 of the data model: trips of a route do not overtake
FIFO(trips) ==
    \A t1, t2 \in trips :
        Pattern(t1) = Pattern(t2) =>
            \A i, j \in 1..Len(TripDef(t1)) :
                (i < j /\ TripDef(t1)[i].dep <= TripDef(t2)[i].dep)
                    => TripDef(t1)[j].arr <= TripDef(t2)[j].arr

-----------------------------------------------------------------------------
(* Labels and bags *)

OriginRef(s) == [kind |-> "origin", trip |-> 0, from |-> s, to |-> s]
TripRef(t, b, q) == [kind |-> "trip", trip |-> t, from |-> b, to |-> q]
TransferRef(q, q2) == [kind |-> "transfer", trip |-> 0, from |-> q, to |-> q2]

Label(arr, fare, n, ref) == [arr |-> arr, fare |-> fare, n |-> n, ref |-> ref]

initial_label(s, t_dep) == Label(t_dep, 0, 0, OriginRef(s))

\* componentwise <=, strict in at least one criterion
Dominates(a, b) ==
    /\ a.arr <= b.arr /\ a.fare <= b.fare /\ a.n <= b.n
    /\ (a.arr < b.arr \/ a.fare < b.fare \/ a.n < b.n)

ParetoSet(S) == {l \in S : ~ \E m \in S : Dominates(m, l)}

MergeNoDiscard(bag, other) ==
    [bag |-> bag \cup other, changed |-> other \ bag # {}]

\* Bag.merge: union, then discard the dominated labels
Merge(bag, other) ==
    LET kept == ParetoSet(bag \cup other)
    IN [bag |-> kept, changed |-> (other \ bag) \cap kept # {}]

EmptyBags == [s \in Stops |-> {}]

-----------------------------------------------------------------------------
(* The round engine: one RAPTOR round *)

\* Phase 1: the (route, boarding index) pairs: each route serving a marked
\* stop, with the earliest marked stop of its pattern
AccumulateRoutes(M) ==
    {<<r, CHOOSE i \in 1..Len(r) :
              /\ r[i] \in M
              /\ \A j \in 1..Len(r) : r[j] \in M => i <= j>> :
        r \in {r2 \in Routes : \E j \in 1..Len(r2) : r2[j] \in M}}

OnBoard(t, b, fare, n) == [trip |-> t, board |-> b, fare |-> fare, n |-> n]

\* trim the on-board labels before moving from stop index i to the next stop
TrimOnBoard(S, r, i) ==
    IF i >= Len(r) THEN S
    ELSE LET crit(o) == Label(TripDef(o.trip)[i + 1].arr,
                              o.fare + TripDef(o.trip)[i].fare, o.n, 0)
         IN {o \in S : ~ \E o2 \in S : Dominates(crit(o2), crit(o))}

\* Phase 2 for one route, from stop index i on: drop off, then pick up
RECURSIVE ScanRoute(_, _, _, _, _)
ScanRoute(r, i, onboard, Bprev, st) ==
    IF i > Len(r) THEN st
    ELSE
      LET q == r[i]
          \* the labels on board, carried from the previous stop to q
          carried == {OnBoard(o.trip, o.board,
                              o.fare + TripDef(o.trip)[i - 1].fare, o.n) :
                         o \in onboard}
          arrivals == {Label(TripDef(o.trip)[i].arr, o.fare, o.n,
                             TripRef(o.trip, o.board, q)) : o \in carried}
          m == Merge(st.bags[q], arrivals)
          st1 == [bags |-> [st.bags EXCEPT ![q] = m.bag],
                  marked |-> IF m.changed THEN st.marked \cup {q}
                             ELSE st.marked]
          boardable == {l \in Bprev[q] : EarliestTrip(r, i, l.arr) # 0}
          pickups == {OnBoard(EarliestTrip(r, i, l.arr), q, l.fare, l.n + 1) :
                         l \in boardable}
      IN ScanRoute(r, i + 1, TrimOnBoard(carried \cup pickups, r, i), Bprev, st1)

RECURSIVE ScanRoutes(_, _, _)
ScanRoutes(Q, Bprev, st) ==
    IF Q = {} THEN st
    ELSE LET rp == CHOOSE x \in Q : TRUE
         IN ScanRoutes(Q \ {rp}, Bprev,
                       ScanRoute(rp[1], rp[2], {}, Bprev, st))

\* Phase 3: one-hop transfers out of the stops marked by the route scan
RECURSIVE AddTransfers(_, _, _)
AddTransfers(T, src, st) ==
    IF T = {} THEN st
    ELSE LET tr == CHOOSE x \in T : TRUE
             q == tr[1]
             q2 == tr[2]
             moved == {Label(l.arr + TRANSFER_COST, l.fare, l.n,
                             TransferRef(q, q2)) : l \in src[q]}
             m == Merge(st.bags[q2], moved)
         IN AddTransfers(T \ {tr}, src,
                [bags |-> [st.bags EXCEPT ![q2] = m.bag],
                 marked |-> IF m.changed THEN st.marked \cup {q2}
                            ELSE st.marked])

RoundNoCopy(Bprev, M) ==
    LET scanned == ScanRoutes(AccumulateRoutes(M), Bprev,
                              [bags |-> EmptyBags, marked |-> {}])
    IN AddTransfers({<<q, q2>> \in Stops \X Stops :
                        q \in scanned.marked /\ q2 \in TransfersFrom(q)},
                    scanned.bags, scanned)

\* one round: B_k starts as a copy of B_{k-1}; returns [bags, marked]
Round(Bprev, M) ==
    LET scanned == ScanRoutes(AccumulateRoutes(M), Bprev,
                              [bags |-> Bprev, marked |-> {}])
    IN AddTransfers({<<q, q2>> \in Stops \X Stops :
                        q \in scanned.marked /\ q2 \in TransfersFrom(q)},
                    scanned.bags, scanned)

-----------------------------------------------------------------------------
(* The search driver *)

\* the optional seed argument of a search
NoSeed == [given |-> FALSE, bags |-> EmptyBags]
SeedOf(bags) == [given |-> TRUE, bags |-> bags]

\* B_0: the origin labels, Pareto-merged with the seed's labels when seeded
InitialBags(stops, t_dep, seed) ==
    LET natural == [s \in Stops |-> IF s \in stops
                                    THEN {initial_label(s, t_dep)} ELSE {}]
    IN IF ~ seed.given THEN natural
       ELSE [s \in Stops |-> Merge(natural[s], seed.bags[s]).bag]

\* the round loop stops when a round marks nothing or the budget is used
SearchStopsNever(M, round, rounds) == round >= rounds

SearchStops(M, round, rounds) == M = {} \/ round >= rounds

\* McRaptorAlgorithm.run as a function: [bags |-> B_0..B_K, rounds |-> K]
RECURSIVE RunRounds(_, _, _, _)
RunRounds(brs, round, M, rounds) ==
    LET res == Round(brs[round], M)
        brs1 == [j \in 0..(round + 1) |->
                    IF j <= round THEN brs[j] ELSE res.bags]
    IN IF SearchStops(res.marked, round + 1, rounds)
       THEN [bags |-> brs1, rounds |-> round + 1]
       ELSE RunRounds(brs1, round + 1, res.marked, rounds)

run(stops, t_dep, rounds, seed) ==
    RunRounds([j \in {0} |-> InitialBags(stops, t_dep, seed)], 0, stops, rounds)

-----------------------------------------------------------------------------
(* Journey reconstruction *)

RECURSIVE SetToSeq(_)
SetToSeq(S) ==
    IF S = {} THEN <<>>
    ELSE LET x == CHOOSE y \in S : TRUE IN <<x>> \o SetToSeq(S \ {x})

TripIndex(t, s) == CHOOSE i \in 1..Len(TripDef(t)) : TripDef(t)[i].stop = s

\* the fare of the segment of trip t from stop b to stop q
RECURSIVE FareBetween(_, _, _)
FareBetween(t, i, j) ==
    IF i >= j THEN 0 ELSE TripDef(t)[i].fare + FareBetween(t, i + 1, j)

SegmentFare(t, b, q) == FareBetween(t, TripIndex(t, b), TripIndex(t, q))

\* step 1: the labels at the station's stops, Pareto-minimal across them
best_legs_to_destination_station(to_stops, bag) ==
    LET cand == UNION {{[stop |-> s, label |-> l] : l \in bag[s]} : s \in to_stops}
    IN {c \in cand : ~ \E d \in cand : Dominates(d.label, c.label)}

Leg(kind, t, from, to, dep, arr) ==
    [kind |-> kind, trip |-> t, from |-> from, to |-> to, dep |-> dep, arr |-> arr]

\* when the last leg of a label departs
DepartureOf(l) ==
    CASE l.ref.kind = "trip" ->
             TripDef(l.ref.trip)[TripIndex(l.ref.trip, l.ref.from)].dep
      [] l.ref.kind = "transfer" -> l.arr - TRANSFER_COST
      [] OTHER -> l.arr

\* tie-breaking of the precursor search: the earliest-departing candidate
Precursor(cands) ==
    CHOOSE p \in cands : \A p2 \in cands : DepartureOf(p) <= DepartureOf(p2)

WalkFailed == [ok |-> FALSE, origin |-> "", legs |-> <<>>]

\* step 2: the backward walk from label l of round j; [ok, origin, legs]
RECURSIVE Walk(_, _, _)
Walk(brs, j, l) ==
    CASE l.ref.kind = "origin" ->
             [ok |-> TRUE, origin |-> l.ref.from, legs |-> <<>>]
      [] l.ref.kind = "trip" ->
             LET t == l.ref.trip
                 b == l.ref.from
                 dep == TripDef(t)[TripIndex(t, b)].dep
                 cands == IF j - 1 \in DOMAIN brs
                          THEN {p \in brs[j - 1][b] :
                                   /\ p.arr <= dep
                                   /\ p.fare = l.fare - SegmentFare(t, b, l.ref.to)
                                   /\ p.n = l.n - 1}
                          ELSE {}
             IN IF cands = {} THEN WalkFailed
                ELSE LET sub == Walk(brs, j - 1, Precursor(cands))
                     IN IF ~ sub.ok THEN WalkFailed
                        ELSE [sub EXCEPT !.legs = Append(@,
                                 Leg("trip", t, b, l.ref.to, dep, l.arr))]
      [] OTHER ->
             LET f == l.ref.from
                 cands == {p \in brs[j][f] :
                              /\ p.arr + TRANSFER_COST = l.arr
                              /\ p.fare = l.fare
                              /\ p.n = l.n}
             IN IF cands = {} THEN WalkFailed
                ELSE LET sub == Walk(brs, j, Precursor(cands))
                     IN IF ~ sub.ok THEN WalkFailed
                        ELSE [sub EXCEPT !.legs = Append(@,
                                 Leg("transfer", 0, f, l.ref.to,
                                     l.arr - TRANSFER_COST, l.arr))]

\* step 3: the journey of a destination leg; ok is FALSE when the walk
\* finds no precursor (InternalInconsistency)
JourneyOf(brs, j, c) ==
    LET w == Walk(brs, j, c.label)
    IN [ok |-> w.ok,
        origin |-> w.origin,
        destination |-> c.stop,
        departure_time |-> IF w.legs = <<>> THEN c.label.arr ELSE w.legs[1].dep,
        arrival_time |-> c.label.arr,
        legs |-> w.legs,
        total_fare |-> c.label.fare,
        num_trips |-> c.label.n]

reconstruct_journeys(stops, destination_legs, brs, j) ==
    SetToSeq({JourneyOf(brs, j, c) : c \in destination_legs})

-----------------------------------------------------------------------------
(* The range query: run_range_mcraptor *)

StationSeq == <<"A", "B", "C">>

\* the display names a feed may give the stations
Namings == {[id \in StationIds |-> id],
            [id \in StationIds |-> IF id = "A" THEN "Alpha" ELSE "Town"]}

\* {st.name: get_stops(st.id) for st in stations}: a later station of the
\* same name replaces an earlier one
StationsByName ==
    LET names == timetable.names
        last(nm) == CHOOSE i \in 1..Len(StationSeq) :
                        /\ names[StationSeq[i]] = nm
                        /\ \A j \in 1..Len(StationSeq) :
                               names[StationSeq[j]] = nm => j <= i
    IN [nm \in {names[id] : id \in StationIds} |-> get_stops(StationSeq[last(nm)])]

\* dict.pop(key, None)
Pop(d, key) == [x \in DOMAIN d \ {key} |-> d[x]]

DestinationStops(origin) == Pop(StationsByName, origin)

TripStopTimes ==
    UNION {{[trip |-> t, idx |-> i, stop |-> TripDef(t)[i].stop,
             dts_dep |-> TripDef(t)[i].dep] : i \in 1..Len(TripDef(t))} :
              t \in timetable.trips}

\* TripStopTimes.get_trip_stop_times_in_range, called with the stops alone
get_trip_stop_times_in_range(stops) ==
    {tst \in TripStopTimes : tst.stop \in stops}

RECURSIVE SortedAscending(_)
SortedAscending(S) ==
    IF S = {} THEN <<>>
    ELSE LET x == CHOOSE y \in S : \A z \in S : y <= z
         IN <<x>> \o SortedAscending(S \ {x})

\* sorted(list(set(...)), reverse=True)
RECURSIVE SortedDescending(_)
SortedDescending(S) ==
    IF S = {} THEN <<>>
    ELSE LET x == CHOOSE y \in S : \A z \in S : y >= z
         IN <<x>> \o SortedDescending(S \ {x})

PotentialDepSecs(stops) ==
    SortedDescending({tst.dts_dep : tst \in get_trip_stop_times_in_range(stops)})

SeedArgAlways(index, last) == SeedOf(last)

\* the seed of iteration index: none for the first, last_round_bag after
SeedArg(index, last) == IF index = 0 THEN NoSeed ELSE SeedOf(last)

FinalBagFirstRound(brs, rounds) == brs[0]

\* copy(bag_round_stop[actual_rounds])
FinalBag(brs, rounds) == brs[rounds]

\* the journeys one iteration adds for a destination
IterationJourneys(to_stops) ==
    LET destination_legs == best_legs_to_destination_station(to_stops, last_round_bag)
    IN IF destination_legs # {}
       THEN reconstruct_journeys(from_stops, destination_legs,
                                 bag_round_stop, actual_rounds)
       ELSE <<>>

SeqRange(q) == {q[i] : i \in 1..Len(q)}

KeepAll(journeys) == journeys

\* the journeys not seen earlier in the list, in order
RECURSIVE KeepUnique(_)
KeepUnique(journeys) ==
    IF journeys = <<>> THEN <<>>
    ELSE LET n == Len(journeys)
             front == KeepUnique(SubSeq(journeys, 1, n - 1))
         IN IF journeys[n] \in SeqRange(front) THEN front
            ELSE Append(front, journeys[n])

-----------------------------------------------------------------------------
(* The GTFS feed and its conversion (gtfs/timetable.py) *)

\* the --agencies allow-list
agencies == {"Sydney Trains"}

\* agency.txt and routes.txt: route_id -> agency_name
GtfsRoutes == [r \in {"r1", "r9"} |->
                  IF r = "r1" THEN "Sydney Trains" ELSE "Other Coaches"]

\* trips.txt and stop_times.txt: trip_id -> route, service, stops called at
GtfsTrips == [t \in {"t1", "t2", "t3"} |->
    CASE t = "t1" -> [route_id |-> "r1", service_id |-> "s1",
                      stop_ids |-> <<"P1", "P3">>]
      [] t = "t2" -> [route_id |-> "r1", service_id |-> "s2",
                      stop_ids |-> <<"P2", "P3">>]
      [] t = "t3" -> [route_id |-> "r9", service_id |-> "s1",
                      stop_ids |-> <<"P1", "P2">>]]

\* the service dates: the seven days from Monday 31 March 2025
Dates == {20250331, 20250401, 20250402, 20250403, 20250404, 20250405,
          20250406}

\* start_date and end_date of a calendar row
Ranges == {<<20250101, 20251231>>, <<20250402, 20250404>>,
           <<20250101, 20250331>>}

\* the rows calendar.txt may hold for a service
CalendarRows ==
    {[start_date |-> r[1], end_date |-> r[2],
      monday |-> f[1], tuesday |-> f[2], wednesday |-> f[3],
      thursday |-> f[4], friday |-> f[5], saturday |-> f[6],
      sunday |-> f[7]] : r \in Ranges, f \in [1..7 -> {0, 1}]}

\* a service that runs every day of 2025
EveryDay ==
    [start_date |-> 20250101, end_date |-> 20251231,
     monday |-> 1, tuesday |-> 1, wednesday |-> 1, thursday |-> 1,
     friday |-> 1, saturday |-> 1, sunday |-> 1]

\* calendar.txt: service_id -> row; service s2 may have no row
Calendars ==
    {[s \in {"s1"} |-> r] : r \in CalendarRows}
    \cup {[s \in {"s1", "s2"} |-> IF s = "s1" THEN r ELSE EveryDay] :
             r \in CalendarRows}

\* the order of the platform rows in stops.txt
PlatformOrder == <<"P1", "P2", "P3">>

\* stops.txt: platform rows with a parent_station, and the station rows
\* (parent_station NaN) the feed holds
StopFeeds ==
    {{[stop_id |-> "P1", parent_station |-> "A"],
      [stop_id |-> "P2", parent_station |-> p2],
      [stop_id |-> "P3", parent_station |-> "B"]}
     \cup {[stop_id |-> st, parent_station |-> "NaN"] : st \in present} :
        p2 \in {"A", "B"}, present \in SUBSET {"A", "B"}}

\* datetime.strptime(departure_date, "%Y%m%d").weekday(): Monday is 0
Weekday(date) ==
    LET year == date \div 10000
        month == (date \div 100) % 100
        day == date % 100
        y == IF month <= 2 THEN year - 1 ELSE year
        era == y \div 400
        yoe == y - era * 400
        mp == IF month > 2 THEN month - 3 ELSE month + 9
        doy == (153 * mp + 2) \div 5 + day - 1
        doe == yoe * 365 + yoe \div 4 - yoe \div 100 + doy
        days == era * 146097 + doe - 719468
    IN (days + 3) % 7

\* trips[trips.route_id.isin(routes.route_id.values)]
TripsOfAgencies ==
    {t \in DOMAIN GtfsTrips : GtfsRoutes[GtfsTrips[t].route_id] \in agencies}

\* the filter with the Sunday branch reading the saturday column
FilterOnSaturdayColumn(trips, calendar, date) ==
    LET day_of_week == Weekday(date)
        row(t) == calendar[GtfsTrips[t].service_id]
        merged == {t \in trips : GtfsTrips[t].service_id \in DOMAIN calendar}
        in_range == {t \in merged : row(t).start_date <= date
                                    /\ row(t).end_date >= date}
    IN CASE day_of_week = 0 -> {t \in in_range : row(t).monday = 1}
         [] day_of_week = 1 -> {t \in in_range : row(t).tuesday = 1}
         [] day_of_week = 2 -> {t \in in_range : row(t).wednesday = 1}
         [] day_of_week = 3 -> {t \in in_range : row(t).thursday = 1}
         [] day_of_week = 4 -> {t \in in_range : row(t).friday = 1}
         [] day_of_week = 5 -> {t \in in_range : row(t).saturday = 1}
         [] day_of_week = 6 -> {t \in in_range : row(t).saturday = 1}
         [] OTHER -> merged

\* the merge of trips with calendar on service_id, then the seven branches:
\* each keeps start_date <= date, end_date >= date and its own day column
FilterOnDepartureDate(trips, calendar, date) ==
    LET day_of_week == Weekday(date)
        row(t) == calendar[GtfsTrips[t].service_id]
        merged == {t \in trips : GtfsTrips[t].service_id \in DOMAIN calendar}
        in_range == {t \in merged : row(t).start_date <= date
                                    /\ row(t).end_date >= date}
    IN CASE day_of_week = 0 -> {t \in in_range : row(t).monday = 1}
         [] day_of_week = 1 -> {t \in in_range : row(t).tuesday = 1}
         [] day_of_week = 2 -> {t \in in_range : row(t).wednesday = 1}
         [] day_of_week = 3 -> {t \in in_range : row(t).thursday = 1}
         [] day_of_week = 4 -> {t \in in_range : row(t).friday = 1}
         [] day_of_week = 5 -> {t \in in_range : row(t).saturday = 1}
         [] day_of_week = 6 -> {t \in in_range : row(t).sunday = 1}
         [] OTHER -> merged

\* stop_times of the kept trips: [trip_id, stop_sequence, stop_id]
StopTimesOf(trips) ==
    UNION {{[trip_id |-> t, stop_sequence |-> i,
             stop_id |-> GtfsTrips[t].stop_ids[i]] :
               i \in DOMAIN GtfsTrips[t].stop_ids} : t \in trips}

\* the stop rows kept: those the stop_times use, and the rows of their
\* parent stations
StopRowsOf(stops_full, stop_times) ==
    LET used == {r \in stops_full :
                    r.stop_id \in {st.stop_id : st \in stop_times}}
        stopareas == {r.parent_station : r \in used}
    IN used \cup {r \in stops_full : r.stop_id \in stopareas}

\* the platform rows (parent_station not NaN) in file order
RECURSIVE PlatformRows(_, _)
PlatformRows(rows, order) ==
    IF order = <<>> THEN <<>>
    ELSE LET here == {r \in rows : r.stop_id = Head(order)
                                   /\ r.parent_station # "NaN"}
             rest == PlatformRows(rows, Tail(order))
         IN IF here = {} THEN rest ELSE <<CHOOSE r \in here : TRUE>> \o rest

\* the second loop over the stop rows: look the parent station up, build the
\* Stop, add it to the station and to the stops; a row whose parent is not a
\* station finds None and station.add_stop raises
RECURSIVE AddStopRows(_, _, _)
AddStopRows(rows, station_ids, st) ==
    IF rows = <<>> THEN st
    ELSE LET s == Head(rows)
             station == IF s.parent_station \in station_ids
                        THEN s.parent_station ELSE "None"
             built == st.stop_station @@ (s.stop_id :> station)
         IN IF station = "None"
            THEN [st EXCEPT !.ok = FALSE, !.stop_station = built]
            ELSE AddStopRows(Tail(rows), station_ids,
                     [ok |-> TRUE,
                      station_stops |->
                          [st.station_stops EXCEPT
                              ![station] = @ \cup {s.stop_id}],
                      stop_station |-> built,
                      all_stops |-> st.all_stops \cup {s.stop_id}])

\* the comprehension that also pairs a stop with itself
StationTransfersWithSelf(stops) ==
    {[from_stop |-> stop_i, to_stop |-> stop_j, layovertime |-> TRANSFER_COST] :
        stop_i \in stops, stop_j \in stops}

\* the transfers of one station: every ordered pair of its stops, stop_i
\* different from stop_j, with layover TRANSFER_COST
StationTransfers(stops) ==
    {tr \in {[from_stop |-> stop_i, to_stop |-> stop_j,
              layovertime |-> TRANSFER_COST] :
                 stop_i \in stops, stop_j \in stops} :
        tr.from_stop # tr.to_stop}

\* the variables of the conversion
ingest == <<gpc, departure_date, gtfs_feed, gtfs_timetable, stations,
            station_stops, stop_station, all_stops, trip_stop_times,
            transfers>>

\* nothing built yet
Unbuilt ==
    /\ gtfs_timetable = [trips |-> {}, stops |-> {}]
    /\ stations = {}
    /\ station_stops = << >>
    /\ stop_station = << >>
    /\ all_stops = {}
    /\ trip_stop_times = {}
    /\ transfers = {}

\* the query runs on a timetable already built: no conversion is under way
NoIngest ==
    /\ gpc = "off"
    /\ departure_date = 20250403
    /\ gtfs_feed = [calendar |-> << >>, stops |-> {}]
    /\ Unbuilt

-----------------------------------------------------------------------------
(* The state machine *)

Windows == {<<0, 4>>, <<1, 2>>}

Init ==
    /\ timetable \in [trips : {S \in SUBSET TripPool :
                                  Cardinality(S) <= MaxTrips /\ FIFO(S)},
                      names : Namings]
    /\ origin_station \in StationIds
    /\ max_rounds \in 1..MaxRounds
    /\ \E w \in Windows : t_lo = w[1] /\ t_hi = w[2]
    /\ pc = "idle"
    /\ from_stops = {}
    /\ destination_stops = << >>
    /\ potential_dep_secs = <<>>
    /\ dep_index = 0
    /\ seed_bag = NoSeed
    /\ bag_round_stop = [j \in {0} |-> EmptyBags]
    /\ k = 0
    /\ marked_stops = {}
    /\ actual_rounds = 0
    /\ last_round_bag = EmptyBags
    /\ journeys_to_destinations = << >>
    /\ searched = <<>>
    /\ reconstructed = << >>
    /\ second_call = FALSE
    /\ first_result = << >>
    /\ NoIngest

query == <<timetable, origin_station, max_rounds, t_lo, t_hi>>
search == <<seed_bag, bag_round_stop, k, marked_stops, actual_rounds>>
calls == <<second_call, first_result>>

\* lines 104-127: stops, candidate departures, empty accumulators
Call ==
    /\ pc = "idle"
    /\ from_stops' = get_stops(origin_station)
    /\ destination_stops' = DestinationStops(origin_station)
    /\ potential_dep_secs' = PotentialDepSecs(from_stops')
    /\ journeys_to_destinations' = [nm \in DOMAIN destination_stops' |-> <<>>]
    /\ reconstructed' = [nm \in DOMAIN destination_stops' |-> <<>>]
    /\ searched' = <<>>
    /\ dep_index' = 0
    /\ pc' = "loop"
    /\ UNCHANGED <<ingest, query, search, last_round_bag, calls>>

\* lines 132-141: the next departure; the search starts from B_0
StartSearch ==
    /\ pc = "loop"
    /\ dep_index < Len(potential_dep_secs)
    /\ LET dep_secs == potential_dep_secs[dep_index + 1]
           seed == SeedArg(dep_index, last_round_bag)
       IN /\ seed_bag' = seed
          /\ bag_round_stop' = [j \in {0} |-> InitialBags(from_stops, dep_secs, seed)]
          /\ searched' = Append(searched, dep_secs)
    /\ k' = 0
    /\ marked_stops' = from_stops
    /\ pc' = "search"
    /\ UNCHANGED <<ingest, query, from_stops, destination_stops,
                   potential_dep_secs,
                   dep_index, actual_rounds, last_round_bag,
                   journeys_to_destinations, reconstructed, calls>>

\* one round of the search; the search returns when the loop stops
RoundStep ==
    /\ pc = "search"
    /\ LET res == Round(bag_round_stop[k], marked_stops)
       IN /\ bag_round_stop' = [j \in 0..(k + 1) |->
                                   IF j <= k THEN bag_round_stop[j] ELSE res.bags]
          /\ marked_stops' = res.marked
          /\ k' = k + 1
          /\ IF SearchStops(res.marked, k + 1, max_rounds)
             THEN actual_rounds' = k + 1 /\ pc' = "returned"
             ELSE UNCHANGED <<actual_rounds, pc>>
    /\ UNCHANGED <<ingest, query, from_stops, destination_stops,
                   potential_dep_secs,
                   dep_index, seed_bag, last_round_bag,
                   journeys_to_destinations, searched, reconstructed, calls>>

\* line 142: keep the final round's bag
KeepLastBag ==
    /\ pc = "returned"
    /\ last_round_bag' = FinalBag(bag_round_stop, actual_rounds)
    /\ pc' = "reconstruct"
    /\ UNCHANGED <<ingest, query, from_stops, destination_stops,
                   potential_dep_secs,
                   dep_index, search, journeys_to_destinations, searched,
                   reconstructed, calls>>

\* lines 145-154: reconstruct and accumulate the journeys of every
\* destination; a walk that finds no precursor aborts the query
Reconstruct ==
    /\ pc = "reconstruct"
    /\ LET new == [nm \in DOMAIN destination_stops |->
                      IterationJourneys(destination_stops[nm])]
       IN IF \E nm \in DOMAIN new : \E j \in SeqRange(new[nm]) : ~ j.ok
          THEN /\ pc' = "failed"
               /\ UNCHANGED <<journeys_to_destinations, reconstructed, dep_index>>
          ELSE /\ journeys_to_destinations' =
                     [nm \in DOMAIN new |-> journeys_to_destinations[nm] \o new[nm]]
               /\ reconstructed' =
                     [nm \in DOMAIN new |-> reconstructed[nm] \o new[nm]]
               /\ dep_index' = dep_index + 1
               /\ pc' = "loop"
    /\ UNCHANGED <<ingest, query, from_stops, destination_stops,
                   potential_dep_secs,
                   search, last_round_bag, searched, calls>>

\* lines 158-167: keep the unique journeys and return the map
Return ==
    /\ pc = "loop"
    /\ dep_index >= Len(potential_dep_secs)
    /\ journeys_to_destinations' =
           [nm \in DOMAIN journeys_to_destinations |->
               KeepUnique(journeys_to_destinations[nm])]
    /\ pc' = "done"
    /\ UNCHANGED <<ingest, query, from_stops, destination_stops,
                   potential_dep_secs,
                   dep_index, search, last_round_bag, searched, reconstructed,
                   calls>>

\* the caller runs the same query a second time
CallAgain ==
    /\ pc = "done"
    /\ ~ second_call
    /\ second_call' = TRUE
    /\ first_result' = journeys_to_destinations
    /\ pc' = "idle"
    /\ UNCHANGED <<ingest, query, from_stops, destination_stops,
                   potential_dep_secs,
                   dep_index, search, last_round_bag, journeys_to_destinations,
                   searched, reconstructed>>

Next ==
    \/ Call
    \/ StartSearch
    \/ RoundStep
    \/ KeepLastBag
    \/ Reconstruct
    \/ Return
    \/ CallAgain

Spec == Init /\ [][Next]_vars

-----------------------------------------------------------------------------
(* The state machine of the conversion *)

\* the variables of the range query
driver == <<query, pc, from_stops, destination_stops, potential_dep_secs,
            dep_index, search, last_round_bag, journeys_to_destinations,
            searched, reconstructed, calls>>

\* no query is under way while the timetable is built
NoQuery ==
    /\ timetable = [trips |-> {}, names |-> [s \in StationIds |-> s]]
    /\ origin_station = "A"
    /\ max_rounds = 1
    /\ t_lo = 0
    /\ t_hi = 0
    /\ pc = "off"
    /\ from_stops = {}
    /\ destination_stops = << >>
    /\ potential_dep_secs = <<>>
    /\ dep_index = 0
    /\ seed_bag = NoSeed
    /\ bag_round_stop = [j \in {0} |-> EmptyBags]
    /\ k = 0
    /\ marked_stops = {}
    /\ actual_rounds = 0
    /\ last_round_bag = EmptyBags
    /\ journeys_to_destinations = << >>
    /\ searched = <<>>
    /\ reconstructed = << >>
    /\ second_call = FALSE
    /\ first_result = << >>

\* a feed directory and a service date
GtfsInit ==
    /\ NoQuery
    /\ gpc = "start"
    /\ departure_date \in Dates
    /\ gtfs_feed \in [calendar : Calendars, stops : StopFeeds]
    /\ Unbuilt

\* read_gtfs_timetable: the trips of the allowed agencies that run on the
\* date, their stop times, and the stop rows those use
ReadGtfs ==
    /\ gpc = "start"
    /\ LET trips == FilterOnDepartureDate(TripsOfAgencies, gtfs_feed.calendar,
                                          departure_date)
       IN gtfs_timetable' =
              [trips |-> trips,
               stops |-> StopRowsOf(gtfs_feed.stops, StopTimesOf(trips))]
    /\ gpc' = "read"
    /\ UNCHANGED <<driver, departure_date, gtfs_feed, stations, station_stops,
                   stop_station, all_stops, trip_stop_times, transfers>>

\* the first loop over the stop rows: a Station for every row without a
\* parent_station
AddStations ==
    /\ gpc = "read"
    /\ stations' = {s.stop_id : s \in {r \in gtfs_timetable.stops :
                                          r.parent_station = "NaN"}}
    /\ station_stops' = [st \in stations' |-> {}]
    /\ gpc' = "stations"
    /\ UNCHANGED <<driver, departure_date, gtfs_feed, gtfs_timetable,
                   stop_station, all_stops, trip_stop_times, transfers>>

\* the second loop over the stop rows: a Stop for every row with a
\* parent_station; the conversion ends there when station.add_stop raises
AddStops ==
    /\ gpc = "stations"
    /\ LET st == AddStopRows(PlatformRows(gtfs_timetable.stops, PlatformOrder),
                             stations,
                             [ok |-> TRUE, station_stops |-> station_stops,
                              stop_station |-> << >>, all_stops |-> {}])
       IN /\ station_stops' = st.station_stops
          /\ stop_station' = st.stop_station
          /\ all_stops' = st.all_stops
          /\ gpc' = IF st.ok THEN "stops" ELSE "failed"
    /\ UNCHANGED <<driver, departure_date, gtfs_feed, gtfs_timetable, stations,
                   trip_stop_times, transfers>>

\* the rest of gtfs_to_pyraptor_timetable: the trip stop times of the trips,
\* then the transfers of every station
BuildTimetable ==
    /\ gpc = "stops"
    /\ trip_stop_times' =
           {[trip |-> st.trip_id, stopidx |-> st.stop_sequence - 1,
             stop |-> st.stop_id] : st \in StopTimesOf(gtfs_timetable.trips)}
    /\ transfers' = UNION {StationTransfers(station_stops[st]) : st \in stations}
    /\ gpc' = "done"
    /\ UNCHANGED <<driver, departure_date, gtfs_feed, gtfs_timetable, stations,
                   station_stops, stop_station, all_stops>>

GtfsNext ==
    \/ ReadGtfs
    \/ AddStations
    \/ AddStops
    \/ BuildTimetable

GtfsSpec == GtfsInit /\ [][GtfsNext]_vars

-----------------------------------------------------------------------------
(* Properties *)

\* the journeys of the unseeded searches, one per candidate departure, merged
UnseededJourneys(to_stops) ==
    UNION {LET r == run(from_stops, dep, max_rounds, NoSeed)
           IN SeqRange(reconstruct_journeys(from_stops,
                  best_legs_to_destination_station(to_stops, r.bags[r.rounds]),
                  r.bags, r.rounds)) :
              dep \in SeqRange(potential_dep_secs)}

\* C1: the seeded range query yields, for every destination, the same set of
\* journeys as the unseeded searches of the candidate departures merged: it
\* returns where they all succeed, and what it returns is their union.
C1_SeededEqualsUnseeded ==
    /\ pc = "done" =>
           \A nm \in DOMAIN destination_stops :
               SeqRange(journeys_to_destinations[nm])
                   = UnseededJourneys(destination_stops[nm])
    /\ pc = "failed" =>
           \E nm \in DOMAIN destination_stops :
               \E j \in UnseededJourneys(destination_stops[nm]) : ~ j.ok

\* the departures of the origin stops that lie in the closed query window
DeparturesInWindow ==
    {tst.dts_dep : tst \in {x \in TripStopTimes :
                               /\ x.stop \in get_stops(origin_station)
                               /\ t_lo <= x.dts_dep
                               /\ x.dts_dep <= t_hi}}

\* C2: every departure a search is started for lies in the closed window
\* [t_lo, t_hi], and the candidates are exactly the departures of the origin
\* stops inside the window.
C2_DeparturesInsideWindow ==
    /\ \A i \in 1..Len(searched) : t_lo <= searched[i] /\ searched[i] <= t_hi
    /\ pc # "idle" => SeqRange(potential_dep_secs) = DeparturesInWindow

\* the distinct departure times of the TripStopTimes at the origin stops
OriginDepartures ==
    {tst.dts_dep : tst \in {x \in TripStopTimes : x.stop \in get_stops(origin_station)}}

\* C3: the searches run in strictly descending order of departure time, so
\* none is searched twice, and a query that returns has searched every
\* distinct candidate departure.
C3_DescendingOncePerDeparture ==
    /\ \A i, j \in 1..Len(searched) : i < j => searched[i] > searched[j]
    /\ SeqRange(searched) \subseteq OriginDepartures
    /\ pc = "done" => SeqRange(searched) = OriginDepartures

C3_Witness ==
    /\ pc = "done"
    /\ Len(searched) >= 2
    /\ \E x, y \in TripStopTimes :
           /\ x # y
           /\ x.stop \in from_stops /\ y.stop \in from_stops
           /\ x.dts_dep = y.dts_dep

\* C4: the first search of a query gets no seed; every later search gets the
\* bag of the final round (index actual_rounds) of the search before it.
C4_SeedIsPreviousFinalBag ==
    [][(pc = "loop" /\ pc' = "search") =>
          IF dep_index = 0 THEN ~ seed_bag'.given
          ELSE /\ seed_bag'.given
               /\ seed_bag'.bags = bag_round_stop[actual_rounds]]_vars

C4_Witness ==
    /\ pc = "search"
    /\ dep_index >= 1
    /\ seed_bag.given
    /\ actual_rounds >= 2
    /\ \E s \in Stops \ from_stops : seed_bag.bags[s] # {}

\* C5: a returned list holds no journey twice, holds every journey an
\* iteration reconstructed for the destination, and keeps the journeys in the
\* order of their first occurrence in the accumulated list.
C5_UniqueAndComplete ==
    pc = "done" =>
        \A nm \in DOMAIN journeys_to_destinations :
            LET out == journeys_to_destinations[nm]
                acc == reconstructed[nm]
                first(x) == CHOOSE i \in 1..Len(acc) :
                                acc[i] = x /\ \A h \in 1..(i - 1) : acc[h] # x
            IN /\ \A i, j \in 1..Len(out) : i < j => out[i] # out[j]
               /\ SeqRange(out) = SeqRange(acc)
               /\ \A i, j \in 1..Len(out) : i < j => first(out[i]) < first(out[j])

C5_Witness ==
    /\ pc = "done"
    /\ \E nm \in DOMAIN journeys_to_destinations :
           /\ Len(journeys_to_destinations[nm]) >= 2
           /\ Len(reconstructed[nm]) > Len(journeys_to_destinations[nm])

C7_BagsParetoMinimal ==
    \A j \in DOMAIN bag_round_stop : \A s \in Stops :
        \A l1, l2 \in bag_round_stop[j][s] : ~ Dominates(l1, l2)

C7_Witness ==
    /\ pc = "search"
    /\ seed_bag.given
    /\ k >= 1
    /\ \E s \in Stops : Cardinality(bag_round_stop[k][s]) >= 2

\* C8: a search ends within max_rounds rounds, at the first round that marks
\* no stop or at the budget; actual_rounds is at most max_rounds and indexes
\* a bag of the result.
C8_SearchTerminates ==
    /\ k \in 0..max_rounds
    /\ pc = "search" =>
           /\ k < max_rounds
           /\ DOMAIN bag_round_stop = 0..k
           /\ k >= 1 => marked_stops # {}
    /\ pc \in {"returned", "reconstruct"} =>
           /\ actual_rounds = k
           /\ actual_rounds \in 0..max_rounds
           /\ actual_rounds \in DOMAIN bag_round_stop
           /\ marked_stops = {} \/ actual_rounds = max_rounds

C8_Witness ==
    /\ pc = "returned"
    /\ actual_rounds < max_rounds
    /\ marked_stops = {}
    /\ seed_bag.given

\* C9: every label of the bag of round j, at any stop, uses at most j trips,
\* in seeded searches too.
C9_TripsAtMostRound ==
    \A j \in DOMAIN bag_round_stop : \A s \in Stops :
        \A l \in bag_round_stop[j][s] : l.n <= j

\* C10: every label of round j-1 is, in round j of the same stop, present or
\* matched by a label that is at least as good in every criterion.
C10_MonotoneRefinement ==
    \A j \in DOMAIN bag_round_stop \ {0} : \A s \in Stops :
        \A l \in bag_round_stop[j - 1][s] :
            \/ l \in bag_round_stop[j][s]
            \/ \E l2 \in bag_round_stop[j][s] :
                   l2.arr <= l.arr /\ l2.fare <= l.fare /\ l2.n <= l.n

C10_Witness ==
    /\ pc = "search"
    /\ k >= 1
    /\ \E s \in Stops : \E l \in bag_round_stop[k - 1][s] :
           l \notin bag_round_stop[k][s]

\* C11: a query whose departure set is empty reports an error and returns
\* no journey map.
C11_EmptyDeparturesRejected ==
    pc = "done" => potential_dep_secs # <<>>

\* C15: the origin station is no destination: no entry of the destination
\* map holds a stop of the origin station, and no returned journey ends at
\* one, whatever the stations are named.
C15_OriginNotADestination ==
    /\ pc # "idle" =>
           \A nm \in DOMAIN destination_stops :
               destination_stops[nm] \cap get_stops(origin_station) = {}
    /\ pc = "done" =>
           \A nm \in DOMAIN journeys_to_destinations :
               \A j \in SeqRange(journeys_to_destinations[nm]) :
                   j.destination \notin get_stops(origin_station)

\* the day column of calendar.txt that each service date falls on
DayColumn ==
    (20250331 :> "monday") @@ (20250401 :> "tuesday")
    @@ (20250402 :> "wednesday") @@ (20250403 :> "thursday")
    @@ (20250404 :> "friday") @@ (20250405 :> "saturday")
    @@ (20250406 :> "sunday")

\* C12: of the trips of the allowed agencies, read_gtfs_timetable keeps
\* exactly those whose service has a calendar row with
\* start_date <= service date <= end_date and a 1 in the column of the
\* service date's weekday; the other six columns play no part.
C12_KeptIffServiceRuns ==
    gpc \in {"read", "stations", "stops", "failed", "done"} =>
        \A t \in TripsOfAgencies :
            t \in gtfs_timetable.trips <=>
                /\ GtfsTrips[t].service_id \in DOMAIN gtfs_feed.calendar
                /\ LET row == gtfs_feed.calendar[GtfsTrips[t].service_id]
                   IN /\ row.start_date <= departure_date
                      /\ departure_date <= row.end_date
                      /\ row[DayColumn[departure_date]] = 1

\* a Sunday on which a service flagged for Sunday alone keeps its trip
C12_Witness ==
    /\ gpc = "read"
    /\ departure_date = 20250406
    /\ "t1" \in gtfs_timetable.trips
    /\ LET row == gtfs_feed.calendar["s1"]
       IN \A col \in {"monday", "tuesday", "wednesday", "thursday",
                      "friday", "saturday"} : row[col] = 0

\* C13: the transfers of the built timetable are exactly the ordered pairs
\* of distinct stops with the same Stop.station, each with layover
\* TRANSFER_COST.
C13_TransfersWithinStations ==
    gpc = "done" =>
        transfers =
            {tr \in [from_stop : all_stops, to_stop : all_stops,
                     layovertime : {TRANSFER_COST}] :
                /\ tr.from_stop # tr.to_stop
                /\ stop_station[tr.from_stop] = stop_station[tr.to_stop]}

\* a built timetable with a transfer and with stops of two stations
C13_Witness ==
    /\ gpc = "done"
    /\ transfers # {}
    /\ \E a, b \in all_stops : stop_station[a] # stop_station[b]

\* C14: the conversion processes every set of stop rows, and every Stop it
\* constructs is in Station.stops of exactly one Station, the one its
\* Stop.station names; also when a row's parent_station has no station row.
C14_StopsBelongToOneStation ==
    /\ gpc # "failed"
    /\ gpc \in {"stops", "done"} =>
           /\ all_stops = {r.stop_id : r \in {q \in gtfs_timetable.stops :
                                                 q.parent_station # "NaN"}}
           /\ \A s \in DOMAIN stop_station :
                  /\ Cardinality({st \in stations : s \in station_stops[st]}) = 1
                  /\ \A st \in stations :
                         s \in station_stops[st] <=> stop_station[s] = st

====
